---------------------------- MODULE Spec2Model ----------------------------
(***************************************************************************)
(* The content cache of src/confluence.go: a Confluence value holds one    *)
(* reference to a go-cache store and five accessors that read through it   *)
(* to the remote wiki API, plus Reset, which replaces the store.           *)
(*                                                                         *)
(* Strings are sequences of one-character strings, so that concatenation   *)
(* and strings.Replace are computed as the Go code computes them.  Time is *)
(* counted in minutes.  The callers are the goroutines of the request      *)
(* handlers; each step of a caller is one access to shared state (the      *)
(* field c.cache with the store operation made through it) or one remote   *)
(* request.  The load of c.cache and the store operation made through the  *)
(* loaded reference are one step: an operation on a store that Reset has   *)
(* already replaced touches only a store that no later lookup can see,    *)
(* which is the outcome of the same operation taken just before the Reset. *)
(* Page fields copied verbatim from the response and never read by the     *)
(* cache (Type, Status, Link) and the like fields of a Space are left out. *)
(*                                                                         *)
(* Four specifications share the definitions: Spec (one caller, the clock, *)
(* the janitor and the remote content), ConcSpec (the callers of           *)
(* concurrent requests), KeySpec (one caller whose arguments join to the   *)
(* same cache keys) and RewriteSpec (the link rewrites of handlePageData   *)
(* applied to bodies put together from pieces).  The request handlers of   *)
(* Convergence are modelled by the response they give to what an accessor  *)
(* returned.                                                               *)
(***************************************************************************)
EXTENDS Integers, Sequences, FiniteSets, TLC

VARIABLES
    cache,   \* the store c.cache points to: key -> [val, exp]
    ttl,     \* default expiration of that store, in minutes
    now,     \* the clock, in minutes
    rev,     \* revision of the remote content
    pc,      \* per caller: where it is in its call
    call,    \* per caller: the call it is in and what the call did so far
    done,    \* the call (or Reset) that has just returned, with what it did
    last,    \* that call as the next lookup finds it, if no write came after it
    budget,  \* calls still to be started
    text     \* a body under the link rewrites of handlePageData

vars == <<cache, ttl, now, rev, pc, call, done, last, budget, text>>

-----------------------------------------------------------------------------
(* Bounds of the model *)

MaxTime == 60
MaxRev == 1
MaxCalls == 3
MaxFragments == 3
MaxPasses == 2

Callers == {"c1", "c2"}
TickSteps == {30}

(* Program constants *)

DefaultTTL == 30
ResetTTL == 5

-----------------------------------------------------------------------------
(* Strings *)

PagesPrefix == <<"p", "a", "g", "e", "s", "-">>
AttachmentPrefix == <<"a", "t", "t", "a", "c", "h", "m", "e", "n", "t", "-">>
SpacesAll == <<"s", "p", "a", "c", "e", "s", "-", "a", "l", "l">>
Dash == <<"-">>
ContentPath == <<"/", "r", "e", "s", "t", "/", "a", "p", "i", "/",
                 "c", "o", "n", "t", "e", "n", "t", "/">>
DisplayPath == <<"/", "w", "i", "k", "i", "/", "d", "i", "s", "p", "l", "a", "y", "/">>
PagePath == <<"/", "p", "a", "g", "e", "/">>
AttachmentsPath == <<"/", "w", "i", "k", "i", "/", "d", "o", "w", "n", "l", "o", "a", "d", "/",
                     "a", "t", "t", "a", "c", "h", "m", "e", "n", "t", "s", "/">>
DownloadPath == <<"/", "d", "o", "w", "n", "l", "o", "a", "d", "/">>

(* strings.Replace(s, old, new, -1) for a non-empty old: the non-overlapping
   occurrences of old, found left to right, are replaced by new. *)
RECURSIVE ReplaceAll(_, _, _)
ReplaceAll(s, old, new) ==
    IF Len(s) < Len(old) THEN s
    ELSE IF SubSeq(s, 1, Len(old)) = old
         THEN new \o ReplaceAll(SubSeq(s, Len(old) + 1, Len(s)), old, new)
         ELSE <<Head(s)>> \o ReplaceAll(Tail(s), old, new)

NormalizeTitle(title) == ReplaceAll(title, <<" ">>, <<"+">>)

(* strings.Replace(s, old, new, 1): the first occurrence only. *)
RECURSIVE ReplaceFirst(_, _, _)
ReplaceFirst(s, old, new) ==
    IF Len(s) < Len(old) THEN s
    ELSE IF SubSeq(s, 1, Len(old)) = old
         THEN new \o SubSeq(s, Len(old) + 1, Len(s))
         ELSE <<Head(s)>> \o ReplaceFirst(Tail(s), old, new)

(* Mutant: each rewrite replaces the first occurrence only. *)
RewriteBodyFirstOnly(body) ==
    ReplaceFirst(ReplaceFirst(body, DisplayPath, PagePath), AttachmentsPath, DownloadPath)

RewriteBody(body) ==
    ReplaceAll(ReplaceAll(body, DisplayPath, PagePath), AttachmentsPath, DownloadPath)

HomepageID(link) == ReplaceAll(link, ContentPath, <<>>)

(* The query string of a request decodes '+' as a space. *)
DecodeQuery(s) == ReplaceAll(s, <<"+">>, <<" ">>)

-----------------------------------------------------------------------------
(* Cache keys *)

PageKey(key, x) == PagesPrefix \o key \o Dash \o x
(* Mutant: the by-id key is built from another field of the page. *)
PageIdKeyWrongField(key, page) == PageKey(key, page.Title)
PageIdKey(key, page) == PageKey(key, page.ID)
(* Mutant: the by-title key is built from the title as the remote gave it. *)
PageTitleKeyRaw(key, page) == PageKey(key, page.Title)
PageTitleKey(key, page) == PageKey(key, NormalizeTitle(page.Title))
AttachmentKey(id, file, date) == AttachmentPrefix \o id \o Dash \o file \o Dash \o date

-----------------------------------------------------------------------------
(* Values: what the store holds and what a call returns *)

NoPage == [ID |-> <<>>, Title |-> <<>>, Body |-> <<>>]
NoAttachment == [Data |-> <<>>, ContentType |-> <<>>]
NoVal == [kind |-> "nil", page |-> NoPage, spaces |-> <<>>, att |-> NoAttachment]
PageVal(p) == [kind |-> "page", page |-> p, spaces |-> <<>>, att |-> NoAttachment]
SpacesVal(s) == [kind |-> "spaces", page |-> NoPage, spaces |-> s, att |-> NoAttachment]
SpaceVal(s) == [kind |-> "space", page |-> NoPage, spaces |-> <<s>>, att |-> NoAttachment]
AttachmentVal(a) == [kind |-> "attachment", page |-> NoPage, spaces |-> <<>>, att |-> a]


-----------------------------------------------------------------------------
(* The store (github.com/patrickmn/go-cache, as the accessors use it) *)

EmptyStore == <<>>

(* Mutant: Get serves an item whatever its age. *)
LiveForever(c, k, t) == k \in DOMAIN c

(* Get: an item is served unless the clock is past its expiration. *)
Live(c, k, t) == k \in DOMAIN c /\ t <= c[k].exp

(* Mutant: Add in place of Set, which leaves an item that is served. *)
CacheAdd(c, k, v, t, d) ==
    IF k \in DOMAIN c /\ t <= c[k].exp THEN c
    ELSE [x \in DOMAIN c \cup {k} |-> IF x = k THEN [val |-> v, exp |-> t + d] ELSE c[x]]

(* Mutant: a write renews every item of the store. *)
CacheSetRenewsAll(c, k, v, t, d) ==
    [x \in DOMAIN c \cup {k} |->
        IF x = k THEN [val |-> v, exp |-> t + d] ELSE [c[x] EXCEPT !.exp = t + d]]

(* Set with DefaultExpiration: the item expires d after the write. *)
CacheSet(c, k, v, t, d) ==
    [x \in DOMAIN c \cup {k} |-> IF x = k THEN [val |-> v, exp |-> t + d] ELSE c[x]]

(* The janitor's DeleteExpired. *)
DeleteExpired(c, t) == [x \in {k \in DOMAIN c : t <= c[k].exp} |-> c[x]]

-----------------------------------------------------------------------------
(* The remote wiki: its content, and the responses a request can get *)

RemoteSpaces ==
    << [id |-> <<"7">>, key |-> <<"K">>, home |-> ContentPath \o <<"1">>],
       [id |-> <<"8">>, key |-> <<"L">>, home |-> ContentPath \o <<"3">>] >>

(* The second page is titled as the first is numbered; the third is in a space
   whose key holds the separator of the cache keys. *)
RemotePages ==
    { [space |-> <<"K">>, id |-> <<"1">>, title |-> <<"a", " ", "b">>],
      [space |-> <<"K">>, id |-> <<"2">>, title |-> <<"1">>],
      [space |-> <<"K", "-", "1">>, id |-> <<"3">>, title |-> <<"c">>] }

(* The body of every page at a revision of the remote content. *)
RemoteBody(r) == IF r = 0 THEN DisplayPath \o <<"X">> ELSE <<"b">>

(* A JSON object; wf is whether every path the code reads is there as a string. *)
Obj(wf, id, key, title, body, home) ==
    [wf |-> wf, id |-> id, key |-> key, title |-> title, body |-> body, home |-> home]
BadObj == Obj(FALSE, <<>>, <<>>, <<>>, <<>>, <<>>)
SpaceObj(s, r) == Obj(TRUE, s.id, s.key, <<>>, RemoteBody(r), s.home)
PageObj(p, r) == Obj(TRUE, p.id, <<>>, p.title, RemoteBody(r), <<>>)

Response(kind, hasResults, objs, buf) ==
    [kind |-> kind, hasResults |-> hasResults, objs |-> objs, buf |-> buf]
Failures ==
    { Response("errs", FALSE, <<>>, <<>>),
      Response("empty", FALSE, <<>>, <<>>),
      Response("notjson", FALSE, <<>>, <<>>) }
JsonRoot(obj) == Response("json", FALSE, <<obj>>, <<>>)
JsonResults(objs) == Response("json", TRUE, objs, <<>>)
JsonNoResults == Response("json", FALSE, <<>>, <<>>)
Bytes(buf) == Response("bytes", FALSE, <<>>, buf)

SetToSeq(S) == IF S = {} THEN <<>> ELSE <<CHOOSE x \in S : TRUE>>

SpacesResponses(r) ==
    Failures \cup
    { JsonNoResults,
      JsonResults(<<BadObj>>),
      JsonResults([i \in DOMAIN RemoteSpaces |-> SpaceObj(RemoteSpaces[i], r)]) }

PageByIdResponses(id, r) ==
    Failures \cup { JsonRoot(BadObj) } \cup
    { JsonRoot(PageObj(p, r)) : p \in {q \in RemotePages : q.id = id} }

PageByTitleResponses(key, title, r) ==
    Failures \cup
    { JsonNoResults,
      JsonResults(<<>>),
      JsonResults(<<BadObj>>),
      JsonResults(SetToSeq({ PageObj(p, r) : p \in
          {q \in RemotePages : q.space = key /\ q.title = DecodeQuery(title)} })) }

(* The bytes the download endpoint holds for attachments/<id>/<file> at a
   version and modification date. *)
AttachmentData(id, file, version, date) ==
    id \o <<"/">> \o file \o <<"?">> \o version \o <<"&">> \o date

AttachmentResponses(id, file, version, date, r) ==
    { Response("errs", FALSE, <<>>, <<>>), Bytes(<<>>),
      Bytes(AttachmentData(id, file, version, date)) }

Responses(op, args, r) ==
    CASE op \in {"GetSpaces", "GetSpace"} -> SpacesResponses(r)
      [] op = "GetPageById" -> PageByIdResponses(args[2], r)
      [] op = "GetPageByTitle" -> PageByTitleResponses(args[1], args[2], r)
      [] op = "GetAttachment" -> AttachmentResponses(args[1], args[2], args[3], args[4], r)

-----------------------------------------------------------------------------
(* What a call hands back: out is "ok", "err" (an error value) or "panic" *)

Outcome(out, err, res) == [out |-> out, err |-> err, res |-> res]
Ok(res) == Outcome("ok", "none", res)
Err(e) == Outcome("err", e, NoVal)
Panic == Outcome("panic", "none", NoVal)

(* Mutant: GetSpace returns the head of the list. *)
FindSpaceFirst(spaces, key) ==
    IF Len(spaces) = 0 THEN Err("notfound") ELSE Ok(SpaceVal(spaces[1]))

(* The loop of GetSpace over the list GetSpaces returned. *)
FindSpace(spaces, key) ==
    LET hits == {i \in DOMAIN spaces : spaces[i].Key = key}
    IN  IF hits = {} THEN Err("notfound")
        ELSE Ok(SpaceVal(spaces[CHOOSE i \in hits : \A j \in hits : i <= j]))

(* The fields handlePageData reads, each with an unchecked .(string). *)
HandlePageData(obj) ==
    IF ~obj.wf THEN Panic
    ELSE Ok(PageVal([ID |-> obj.id, Title |-> obj.title, Body |-> RewriteBody(obj.body)]))

ParseSpaces(r) ==
    IF r.kind = "errs" THEN Err("transport")
    ELSE IF r.kind = "empty" THEN Err("zero")
    ELSE IF r.kind = "notjson" THEN Err("parse")
    ELSE IF ~r.hasResults THEN Err("path")
    ELSE IF \E i \in DOMAIN r.objs : ~r.objs[i].wf THEN Panic
    ELSE Ok(SpacesVal([i \in DOMAIN r.objs |->
            [ID |-> r.objs[i].id, Key |-> r.objs[i].key,
             Description |-> r.objs[i].body,
             HomepageID |-> HomepageID(r.objs[i].home)]]))

(* Mutant: no check for an empty results array; the zero page is used. *)
ParsePageByTitleNoEmptyCheck(r) ==
    IF r.kind = "errs" THEN Err("transport")
    ELSE IF r.kind = "empty" THEN Err("zero")
    ELSE IF r.kind = "notjson" THEN Err("parse")
    ELSE IF ~r.hasResults THEN Err("path")
    ELSE IF Len(r.objs) = 0 THEN Ok(PageVal(NoPage))
    ELSE HandlePageData(r.objs[1])

ParsePageByTitle(r) ==
    IF r.kind = "errs" THEN Err("transport")
    ELSE IF r.kind = "empty" THEN Err("zero")
    ELSE IF r.kind = "notjson" THEN Err("parse")
    ELSE IF ~r.hasResults THEN Err("path")
    ELSE IF Len(r.objs) = 0 THEN Err("notfound")
    ELSE HandlePageData(r.objs[1])

ParsePageById(r) ==
    IF r.kind = "errs" THEN Err("transport")
    ELSE IF r.kind = "empty" THEN Err("notfound")
    ELSE IF r.kind = "notjson" THEN Err("parse")
    ELSE HandlePageData(r.objs[1])

(* Mutant: no check for an empty payload. *)
ParseAttachmentNoEmptyCheck(r) ==
    IF r.kind = "errs" THEN Err("transport")
    ELSE Ok(AttachmentVal([Data |-> r.buf, ContentType |-> <<"t">>]))

ParseAttachment(r) ==
    IF r.kind = "errs" THEN Err("transport")
    ELSE IF Len(r.buf) = 0 THEN Err("notfound")
    ELSE Ok(AttachmentVal([Data |-> r.buf, ContentType |-> <<"t">>]))

Parse(op, r) ==
    CASE op \in {"GetSpaces", "GetSpace"} -> ParseSpaces(r)
      [] op = "GetPageById" -> ParsePageById(r)
      [] op = "GetPageByTitle" -> ParsePageByTitle(r)
      [] op = "GetAttachment" -> ParseAttachment(r)

(* What the accessor returns for the value v it found or stored. *)
Returned(op, args, v) ==
    IF op = "GetSpace" THEN FindSpace(v.spaces, args[1]) ELSE Ok(v)


-----------------------------------------------------------------------------
(* The request handlers: what the user gets, and whether the failure is
   printed *)

(* Convergence.error: prints the error and renders 503.html, whatever err is. *)
error(err) == [status |-> 500, template |-> "503.html", logged |-> TRUE]

(* Convergence.notFound, the handler of the unknown routes. *)
notFound == [status |-> 200, template |-> "404.html", logged |-> FALSE]

(* The page a handler renders when its accessor calls succeeded. *)
Rendered(op) ==
    [status |-> 200,
     template |-> IF op = "GetSpaces" THEN "index.html" ELSE "page.html",
     logged |-> FALSE]

(* What root, space and page answer when an accessor call has returned o: on
   an error they call error and return. *)
Respond(op, o) == IF o.out = "err" THEN error(o.err) ELSE Rendered(op)

(* The accessors the handlers call. *)
HandlerCalls == {"GetSpaces", "GetSpace", "GetPageById", "GetPageByTitle"}

-----------------------------------------------------------------------------
(* Calls *)

SpaceArgs == {<<"L">>, <<"Z">>}
PageSpaceArgs == {<<"K">>}
IdArgs == {<<"1">>}
TitleArgs == {<<"a", " ", "b">>, <<"a", "+", "b">>}
AttachmentArgs == { <<<<"5">>, <<"f">>, v, <<"d">>, <<"k">>>> : v \in {<<"1">>, <<"2">>} }

Requests ==
    { <<"GetSpaces", <<>>>> } \cup
    { <<"GetSpace", <<k>>>> : k \in SpaceArgs } \cup
    { <<"GetPageById", <<k, i>>>> : k \in PageSpaceArgs, i \in IdArgs } \cup
    { <<"GetPageByTitle", <<k, t>>>> : k \in PageSpaceArgs, t \in TitleArgs } \cup
    { <<"GetAttachment", a>> : a \in AttachmentArgs }

(* Calls whose arguments join to the same key: a title that is another page's
   identifier, parts that hold the separator, and attachments that differ in
   version and token, in date, or in where the separator falls. *)
KeyPageArgs ==
    { <<"GetPageById", <<<<"K">>, <<"1">>>>>>,
      <<"GetPageByTitle", <<<<"K">>, <<"1">>>>>>,
      <<"GetPageById", <<<<"K", "-", "1">>, <<"3">>>>>>,
      <<"GetPageById", <<<<"K">>, <<"1", "-", "3">>>>>> }
KeyAttachmentArgs ==
    { <<<<"5">>, <<"f">>, <<"1">>, <<"d">>, <<"k">>>>,
      <<<<"5">>, <<"f">>, <<"2">>, <<"d">>, <<"j">>>>,
      <<<<"5">>, <<"f">>, <<"1">>, <<"e">>, <<"k">>>>,
      <<<<"5">>, <<"f", "-", "g">>, <<"1">>, <<"d">>, <<"k">>>>,
      <<<<"5", "-", "f">>, <<"g">>, <<"1">>, <<"d">>, <<"k">>>> }
KeyRequests == KeyPageArgs \cup { <<"GetAttachment", a>> : a \in KeyAttachmentArgs }

(* The key an accessor looks up. *)
CacheKey(op, args) ==
    CASE op \in {"GetSpaces", "GetSpace"} -> SpacesAll
      [] op \in {"GetPageById", "GetPageByTitle"} -> PageKey(args[1], args[2])
      [] op = "GetAttachment" -> AttachmentKey(args[1], args[2], args[4])
      [] OTHER -> <<>>

(* What the remote sent, as the parsing code tells the cases apart. *)
ResponseClass(r) ==
    CASE r.kind = "errs" -> "errs"
      [] r.kind = "empty" -> "empty"
      [] r.kind = "notjson" -> "notjson"
      [] r.kind = "bytes" -> IF Len(r.buf) = 0 THEN "empty" ELSE "data"
      [] r.kind = "json" ->
            IF \E i \in DOMAIN r.objs : ~r.objs[i].wf THEN "malformed"
            ELSE IF Len(r.objs) > 0 THEN "data"
            ELSE IF r.hasResults THEN "noresults" ELSE "nopath"

(* A call or Reset that returned, as the next lookup finds it: at is the time
   of its return, own the expiration of the entry under its own key that it
   read or wrote (-1 if none), first the expiration of the first entry it
   wrote (of the entry it read, for a hit), renewed whether it refetched
   after the entry of the same call before it had expired, dropped the keys a
   Reset discarded. *)
Event(op, args, o, hit, at, own, first, renewed, dropped) ==
    [op |-> op, args |-> args, out |-> o.out, err |-> o.err, res |-> o.res,
     hit |-> hit, at |-> at, own |-> own, first |-> first, renewed |-> renewed,
     dropped |-> dropped]
NoEvent ==
    Event("none", <<>>, Outcome("none", "none", NoVal), FALSE, -1, -1, -1, FALSE, {})

(* The record of a call.  Its lookup sets looked, hit, t0 (the time of the
   lookup), pred (the call that returned before it with no write in between)
   and expired (pred is the same call, and the entry it left had expired);
   got is what the remote sent, fetches counts the remote requests, wrote is
   the keys set, over those of them that the store served when the call set
   them, crossed whether a Reset was made between its request and its
   return, own and first are as in Event. *)
NewCall(op, args) ==
    [op |-> op, args |-> args, key |-> CacheKey(op, args),
     looked |-> FALSE, hit |-> FALSE, t0 |-> -1, pred |-> NoEvent,
     expired |-> FALSE, got |-> "none", fetches |-> 0, wrote |-> {}, over |-> {},
     crossed |-> FALSE,
     own |-> -1, first |-> -1,
     out |-> "none", err |-> "none", res |-> NoVal]
NoCall == NewCall("none", <<>>)

EventOf(rec, t) ==
    Event(rec.op, rec.args, Outcome(rec.out, rec.err, rec.res), rec.hit, t,
          IF rec.out = "ok" THEN rec.own ELSE -1,
          IF rec.out = "ok" THEN rec.first ELSE -1,
          rec.out = "ok" /\ rec.expired /\ ~rec.hit, {})

(* The call writes key k at time t in a store of default expiration d. *)
Wrote(rec, k, t, d) ==
    [rec EXCEPT !.wrote = @ \cup {k},
                !.over = IF Live(cache, k, t) THEN @ \cup {k} ELSE @,
                !.own = IF k = rec.key THEN t + d ELSE @,
                !.first = IF @ >= 0 THEN @ ELSE t + d]

(* A body under rewrite: src is the pieces it was put together from, body the
   markup, prev the markup before the last rewrite, passes the rewrites made. *)
NoText == [src |-> <<>>, body |-> <<>>, prev |-> <<>>, passes |-> 0]

(* The pieces bodies are made of: the two link prefixes, what they are
   rewritten to, and their parts, so that a rewrite can bring two pieces
   together into a prefix. *)
Fragments ==
    { <<"/">>, <<"X">>, DisplayPath, AttachmentsPath, PagePath, DownloadPath,
      Tail(DisplayPath), Tail(AttachmentsPath),
      SubSeq(DisplayPath, 1, Len(DisplayPath) - 1),
      SubSeq(AttachmentsPath, 1, Len(AttachmentsPath) - 1) }

Init ==
    /\ cache = EmptyStore
    /\ ttl = DefaultTTL
    /\ now = 0
    /\ rev = 0
    /\ pc = [p \in Callers |-> "idle"]
    /\ call = [p \in Callers |-> NoCall]
    /\ done = NoCall
    /\ last = NoEvent
    /\ budget = MaxCalls
    /\ text = NoText

(* The call of p returns; rec is its record. *)
Return(p, rec) ==
    /\ pc' = [pc EXCEPT ![p] = "idle"]
    /\ call' = [call EXCEPT ![p] = NoCall]
    /\ done' = rec
    /\ last' = EventOf(rec, now)

(* A caller enters an accessor. *)
Enter(p, op, args) ==
    /\ pc[p] = "idle"
    /\ budget > 0
    /\ budget' = budget - 1
    /\ pc' = [pc EXCEPT ![p] = "lookup"]
    /\ call' = [call EXCEPT ![p] = NewCall(op, args)]
    /\ done' = NoCall
    /\ UNCHANGED <<text, cache, ttl, now, rev, last>>

(* c.cache.Get(cacheKey): on a hit the accessor returns the stored value. *)
Lookup(p) ==
    /\ pc[p] = "lookup"
    /\ LET k == call[p].key
           c0 == [call[p] EXCEPT
                     !.looked = TRUE, !.t0 = now, !.pred = last,
                     !.expired = /\ last.op = call[p].op /\ last.args = call[p].args
                                 /\ last.out = "ok" /\ last.own >= 0
                                 /\ now > last.own]
       IN  IF Live(cache, k, now)
           THEN LET o == Returned(call[p].op, call[p].args, cache[k].val)
                IN  Return(p, [c0 EXCEPT !.hit = TRUE, !.own = cache[k].exp,
                                         !.first = cache[k].exp,
                                         !.out = o.out, !.err = o.err, !.res = o.res])
           ELSE /\ pc' = [pc EXCEPT ![p] = "fetch"]
                /\ call' = [call EXCEPT ![p] = c0]
                /\ done' = NoCall
                /\ UNCHANGED last
    /\ UNCHANGED <<text, cache, ttl, now, rev, budget>>

(* Mutant: a request that the transport failed is made again. *)
FetchRetry(p) ==
    /\ pc[p] = "fetch"
    /\ \E r \in Responses(call[p].op, call[p].args, rev) :
         LET o == Parse(call[p].op, r)
             c1 == [call[p] EXCEPT !.fetches = @ + 1, !.got = ResponseClass(r)]
         IN  IF o.out = "ok"
             THEN /\ pc' = [pc EXCEPT ![p] =
                        IF o.res.kind = "page" THEN "set1" ELSE "set"]
                  /\ call' = [call EXCEPT ![p] = [c1 EXCEPT !.res = o.res]]
                  /\ done' = NoCall
                  /\ UNCHANGED last
             ELSE IF r.kind = "errs"
             THEN /\ call' = [call EXCEPT ![p] = c1]
                  /\ done' = NoCall
                  /\ UNCHANGED <<pc, last>>
             ELSE Return(p, [c1 EXCEPT !.out = o.out, !.err = o.err])
    /\ UNCHANGED <<text, cache, ttl, now, rev, budget>>

(* The remote request and the parsing of its response; for a page, the part of
   handlePageData before its writes. *)
Fetch(p) ==
    /\ pc[p] = "fetch"
    /\ \E r \in Responses(call[p].op, call[p].args, rev) :
         LET o == Parse(call[p].op, r)
             c1 == [call[p] EXCEPT !.fetches = @ + 1, !.got = ResponseClass(r)]
         IN  IF o.out = "ok"
             THEN /\ pc' = [pc EXCEPT ![p] =
                        IF o.res.kind = "page" THEN "set1" ELSE "set"]
                  /\ call' = [call EXCEPT ![p] = [c1 EXCEPT !.res = o.res]]
                  /\ done' = NoCall
                  /\ UNCHANGED last
             ELSE Return(p, [c1 EXCEPT !.out = o.out, !.err = o.err])
    /\ UNCHANGED <<text, cache, ttl, now, rev, budget>>

(* c.cache.Set(cacheKey1, page, ...) of handlePageData. *)
SetById(p) ==
    /\ pc[p] = "set1"
    /\ LET k == PageIdKey(call[p].args[1], call[p].res.page)
       IN  /\ cache' = CacheSet(cache, k, call[p].res, now, ttl)
           /\ call' = [call EXCEPT ![p] = Wrote(call[p], k, now, ttl)]
    /\ pc' = [pc EXCEPT ![p] = "set2"]
    /\ done' = NoCall
    /\ last' = NoEvent
    /\ UNCHANGED <<text, ttl, now, rev, budget>>

(* c.cache.Set(cacheKey2, page, ...) of handlePageData, and its return. *)
SetByTitle(p) ==
    /\ pc[p] = "set2"
    /\ LET k == PageTitleKey(call[p].args[1], call[p].res.page)
       IN  /\ cache' = CacheSet(cache, k, call[p].res, now, ttl)
           /\ Return(p, [Wrote(call[p], k, now, ttl) EXCEPT !.out = "ok"])
    /\ UNCHANGED <<text, ttl, now, rev, budget>>

(* c.cache.Set of GetSpaces and of GetAttachment, and the return (for GetSpace,
   after its loop over the list). *)
SetOne(p) ==
    /\ pc[p] = "set"
    /\ LET k == call[p].key
           o == Returned(call[p].op, call[p].args, call[p].res)
       IN  /\ cache' = CacheSet(cache, k, call[p].res, now, ttl)
           /\ Return(p, [Wrote(call[p], k, now, ttl) EXCEPT
                  !.out = o.out, !.err = o.err, !.res = o.res])
    /\ UNCHANGED <<text, ttl, now, rev, budget>>

(* A caller enters Reset. *)
EnterReset(p) ==
    /\ pc[p] = "idle"
    /\ budget > 0
    /\ budget' = budget - 1
    /\ pc' = [pc EXCEPT ![p] = "reset"]
    /\ call' = [call EXCEPT ![p] = NewCall("Reset", <<>>)]
    /\ done' = NoCall
    /\ UNCHANGED <<text, cache, ttl, now, rev, last>>

(* Mutant: Reset changes the time-to-live and keeps the entries. *)
ResetKeepsEntries == [store |-> cache, ttl |-> ResetTTL]

(* The store Reset makes. *)
ResetStore == [store |-> EmptyStore, ttl |-> ResetTTL]

(* c.cache = cache.New(5*time.Minute, 30*time.Second) *)
Reset(p) ==
    /\ pc[p] = "reset"
    /\ cache' = ResetStore.store
    /\ ttl' = ResetStore.ttl
    /\ pc' = [pc EXCEPT ![p] = "idle"]
    /\ call' = [q \in Callers |->
                   IF q = p THEN NoCall
                   ELSE IF pc[q] \in {"set1", "set2", "set"}
                        THEN [call[q] EXCEPT !.crossed = TRUE]
                        ELSE call[q]]
    /\ done' = [call[p] EXCEPT !.out = "ok"]
    /\ last' = Event("Reset", <<>>, Ok(NoVal), FALSE, now, -1, -1, FALSE, DOMAIN cache)
    /\ UNCHANGED <<text, now, rev, budget>>

(* Time passes. *)
Tick ==
    /\ \E d \in TickSteps : now + d <= MaxTime /\ now' = now + d
    /\ UNCHANGED <<text, cache, ttl, rev, pc, call, done, last, budget>>

(* The janitor of the store removes the expired items. *)
Sweep ==
    /\ \E k \in DOMAIN cache : ~Live(cache, k, now)
    /\ cache' = DeleteExpired(cache, now)
    /\ UNCHANGED <<text, ttl, now, rev, pc, call, done, last, budget>>

(* The remote content changes. *)
Edit ==
    /\ rev < MaxRev
    /\ rev' = rev + 1
    /\ UNCHANGED <<text, cache, ttl, now, pc, call, done, last, budget>>

CallerStep(p) ==
    \/ \E q \in Requests : Enter(p, q[1], q[2])
    \/ Lookup(p)
    \/ Fetch(p)
    \/ SetById(p)
    \/ SetByTitle(p)
    \/ SetOne(p)
    \/ EnterReset(p)
    \/ Reset(p)

(* One caller, whose calls follow one another, and the clock. *)
Next ==
    \/ CallerStep("c1")
    \/ Tick
    \/ Sweep
    \/ Edit

Spec == Init /\ [][Next]_vars

(* The callers of concurrent requests, within the time-to-live of the store. *)
ConcNext ==
    \/ \E p \in Callers : CallerStep(p)
    \/ Edit

ConcSpec == Init /\ [][ConcNext]_vars

(* json.Path("body.view.value"): a body is put together, piece by piece. *)
Compose ==
    /\ text.passes = 0
    /\ Len(text.src) < MaxFragments
    /\ \E f \in Fragments :
          text' = [text EXCEPT !.src = Append(@, f), !.body = @ \o f]
    /\ UNCHANGED <<cache, ttl, now, rev, pc, call, done, last, budget>>

(* The two strings.Replace of handlePageData, applied to the body. *)
Rewrite ==
    /\ text.passes < MaxPasses
    /\ text' = [text EXCEPT !.prev = text.body, !.body = RewriteBody(text.body),
                            !.passes = @ + 1]
    /\ UNCHANGED <<cache, ttl, now, rev, pc, call, done, last, budget>>

RewriteNext == Compose \/ Rewrite

RewriteSpec == Init /\ [][RewriteNext]_vars

(* One caller whose calls are those of KeyRequests, and the clock. *)
KeyNext ==
    \/ \E q \in KeyRequests : Enter("c1", q[1], q[2])
    \/ Lookup("c1")
    \/ Fetch("c1")
    \/ SetById("c1")
    \/ SetByTitle("c1")
    \/ SetOne("c1")
    \/ Tick

KeySpec == Init /\ [][KeyNext]_vars


-----------------------------------------------------------------------------
(* Properties *)

(* The calls the state records: the one that has just returned and those in
   progress whose lookup is made. *)
Calls == {r \in {done} \cup {call[p] : p \in Callers} : r.looked}
Returned_(r) == r.out # "none"

(* r follows, within the time the first entry of the call before it is kept,
   or at the very time that call returned. *)
Follows(r, op) == r.pred.op = op /\ r.pred.out = "ok"
Soon(r) == r.t0 = r.pred.at
InFirst(r) == r.t0 <= r.pred.first
InOwn(r) == r.t0 <= r.pred.own

(* C1: after a GetPageById(K, id) that succeeded, a GetPageByTitle(K, T) with T
   the normalized title of the returned page, made at once or while the by-id
   entry is kept, is a cache hit: no remote request, and the same page. *)
C1_ByIdThenByTitleHits ==
    \A r \in Calls :
        ( /\ Follows(r, "GetPageById")
          /\ r.op = "GetPageByTitle"
          /\ r.args = <<r.pred.args[1], NormalizeTitle(r.pred.res.page.Title)>>
          /\ (Soon(r) \/ InFirst(r)) )
        => /\ r.hit
           /\ r.fetches = 0
           /\ r.out = "ok"
           /\ r.res = r.pred.res

C1_Witness ==
    /\ done.looked
    /\ Follows(done, "GetPageById")
    /\ ~done.pred.hit
    /\ done.op = "GetPageByTitle"
    /\ done.args = <<done.pred.args[1], NormalizeTitle(done.pred.res.page.Title)>>
    /\ done.args[2] # done.pred.res.page.Title
    /\ Soon(done)
    /\ done.hit
    /\ done.res = done.pred.res

(* C2, as stated: after any GetPageByTitle(K, T) that succeeded, a
   GetPageById(K, id) with the identifier of the returned page that follows at
   once is a cache hit. *)
C2_ByTitleThenByIdHits_Original ==
    \A r \in Calls :
        ( /\ Follows(r, "GetPageByTitle")
          /\ r.op = "GetPageById"
          /\ r.args = <<r.pred.args[1], r.pred.res.page.ID>>
          /\ Soon(r) )
        => r.hit

(* C2, amended: after a GetPageByTitle(K, T) that missed, fetched the page and
   stored it, a GetPageById(K, id) with the identifier of the returned page,
   made with no Reset in between and while the by-id entry written by that
   call is kept, is a cache hit: no remote request, and the same page. *)
C2_ByTitleThenByIdHits ==
    \A r \in Calls :
        ( /\ Follows(r, "GetPageByTitle")
          /\ ~r.pred.hit
          /\ r.op = "GetPageById"
          /\ r.args = <<r.pred.args[1], r.pred.res.page.ID>>
          /\ InFirst(r) )
        => /\ r.hit
           /\ r.fetches = 0
           /\ r.out = "ok"
           /\ r.res = r.pred.res

C2_Witness ==
    /\ done.looked
    /\ Follows(done, "GetPageByTitle")
    /\ ~done.pred.hit
    /\ done.op = "GetPageById"
    /\ done.args = <<done.pred.args[1], done.pred.res.page.ID>>
    /\ InFirst(done)
    /\ done.hit
    /\ done.res = done.pred.res

(* C3: after a GetPageByTitle(K, T) that succeeded, the same call made again
   with no Reset in between and within the time-to-live is a cache hit. *)
C3_ByTitleReadThrough ==
    \A r \in Calls :
        ( /\ Follows(r, "GetPageByTitle")
          /\ r.op = "GetPageByTitle"
          /\ r.args = r.pred.args
          /\ InFirst(r) )
        => r.hit

(* C4: after a GetSpaces() that succeeded, a GetSpace(key) made while the list
   is kept is served from the list with no remote request: it returns the
   first space of the list whose Key is key, and fails with not found when
   the list has none. *)
C4_GetSpaceFromList ==
    \A r \in Calls :
        ( /\ Follows(r, "GetSpaces")
          /\ r.op = "GetSpace"
          /\ InOwn(r) )
        => LET l == r.pred.res.spaces
               k == r.args[1]
           IN  /\ r.hit
               /\ r.fetches = 0
               /\ \/ \E i \in DOMAIN l :
                        /\ l[i].Key = k
                        /\ \A j \in 1..(i - 1) : l[j].Key # k
                        /\ r.out = "ok"
                        /\ r.res = SpaceVal(l[i])
                  \/ /\ \A i \in DOMAIN l : l[i].Key # k
                     /\ r.out = "err"
                     /\ r.err = "notfound"

C4_Witness ==
    /\ done.looked
    /\ Follows(done, "GetSpaces")
    /\ done.op = "GetSpace"
    /\ done.t0 > done.pred.at
    /\ InOwn(done)
    /\ done.hit
    /\ done.out = "ok"
    /\ done.res.spaces[1].Key = done.args[1]
    /\ done.pred.res.spaces[1].Key # done.args[1]


(* C5: the first lookup after a Reset, with no write in between, is a miss,
   whatever the store held before, and the call makes a remote request. *)
C5_ResetThenMiss ==
    /\ last.op = "Reset" => DOMAIN cache = {}
    /\ \A r \in Calls :
           r.pred.op = "Reset" => /\ ~r.hit
                                  /\ Returned_(r) => r.fetches = 1

C5_Witness ==
    /\ done.looked
    /\ done.pred.op = "Reset"
    /\ done.key \in done.pred.dropped
    /\ done.fetches = 1
    /\ done.out = "ok"

(* The steps that load the field c.cache, and the one that stores to it. *)
LoadsStore == {"lookup", "set1", "set2", "set"}
StoresStore == {"reset"}

(* C6: no two callers are at an access to the field c.cache, one of them the
   store of Reset, with nothing that orders the two accesses. *)
C6_NoDataRace ==
    \A p, q \in Callers :
        p # q => ~(pc[p] \in StoresStore /\ pc[q] \in LoadsStore \cup StoresStore)

(* C7, as stated: a call that fails has set no key. *)
C7_NothingCachedOnFailure_Original ==
    done.out \in {"err", "panic"} => done.wrote = {}

(* C7, amended: when the remote request of a call fails, or its response is
   empty, malformed or holds no result, the call fails and has set no key; the
   one call that fails after a write is a GetSpace whose key matches no space
   of the list it fetched, and it has set 'spaces-all' only. *)
C7_NothingCachedOnFailure ==
    /\ done.got \notin {"none", "data"} =>
           done.out \in {"err", "panic"} /\ done.wrote = {}
    /\ done.out \in {"err", "panic"} =>
           \/ done.wrote = {}
           \/ /\ done.op = "GetSpace"
              /\ done.err = "notfound"
              /\ done.got = "data"
              /\ done.wrote = {SpacesAll}

C7_Witness ==
    /\ done.out = "err"
    /\ done.fetches = 1
    /\ done.got = "empty"
    /\ done.wrote = {}
    /\ DOMAIN cache # {}

(* C8: a GetPageByTitle whose request returns an empty results array fails
   with not found and has set no key, the store serves nothing under its key
   after it, and the same call made next is a miss that requests again. *)
C8_EmptyResultsNotFound ==
    /\ (done.op = "GetPageByTitle" /\ done.got = "noresults") =>
           /\ done.out = "err"
           /\ done.err = "notfound"
           /\ done.wrote = {}
           /\ ~Live(cache, done.key, now)
    /\ \A r \in Calls :
           ( /\ r.pred.op = "GetPageByTitle"
             /\ r.pred.err = "notfound"
             /\ r.op = "GetPageByTitle"
             /\ r.args = r.pred.args )
           => /\ ~r.hit
              /\ Returned_(r) => r.fetches = 1

C8_Witness ==
    /\ done.looked
    /\ done.pred.op = "GetPageByTitle"
    /\ done.pred.err = "notfound"
    /\ done.op = "GetPageByTitle"
    /\ done.args = done.pred.args
    /\ done.fetches = 1

(* C9: a response in which a path the code reads is absent or of the wrong
   type ends the call with an error value. *)
C9_MalformedIsAnError ==
    done.got \in {"malformed", "nopath"} => done.out = "err"

(* C10: a call whose entry, left by the same call before it, has expired is a
   miss that makes exactly one remote request and on success sets its key
   anew; the same call made again while that entry is kept is a hit and makes
   no request. *)
C10_RefetchOnceAfterExpiry ==
    \A r \in Calls :
        /\ r.expired =>
               /\ ~r.hit
               /\ Returned_(r) => r.fetches = 1
               /\ r.out = "ok" => (r.key \in r.wrote /\ r.own > r.t0)
        /\ ( /\ r.pred.renewed
             /\ r.op = r.pred.op
             /\ r.args = r.pred.args
             /\ InOwn(r) )
           => r.hit /\ r.fetches = 0

C10_Witness ==
    /\ done.looked
    /\ done.pred.renewed
    /\ done.op = done.pred.op
    /\ done.args = done.pred.args
    /\ InOwn(done)
    /\ done.hit
    /\ done.fetches = 0

(* C11: after a GetAttachment(id, file, v1, date, tok1) that succeeded, a
   GetAttachment with the same id, file and date and any version and token,
   made while the entry is kept, is a cache hit that returns the same bytes
   with no remote request; and a call is never served the entry of a call
   that differs from it in id, file or date: the bytes of a hit are bytes the
   remote holds for the id, file and date of the call. *)
C11_AttachmentKey ==
    \A r \in Calls :
        /\ ( /\ Follows(r, "GetAttachment")
             /\ r.op = "GetAttachment"
             /\ r.args[1] = r.pred.args[1]
             /\ r.args[2] = r.pred.args[2]
             /\ r.args[4] = r.pred.args[4]
             /\ InOwn(r) )
           => /\ r.hit
              /\ r.fetches = 0
              /\ r.res = r.pred.res
        /\ (r.op = "GetAttachment" /\ r.hit)
           => \E a \in KeyAttachmentArgs \cup AttachmentArgs :
                 r.res.att.Data = AttachmentData(r.args[1], r.args[2], a[3], r.args[4])

(* The part of C11 about version and token, which the code satisfies. *)
C11_VersionAndTokenIgnored ==
    \A r \in Calls :
        ( /\ Follows(r, "GetAttachment")
          /\ r.op = "GetAttachment"
          /\ r.args[1] = r.pred.args[1]
          /\ r.args[2] = r.pred.args[2]
          /\ r.args[4] = r.pred.args[4]
          /\ InOwn(r) )
        => /\ r.hit
           /\ r.fetches = 0
           /\ r.res = r.pred.res

RECURSIVE Flatten(_)
Flatten(ss) == IF ss = <<>> THEN <<>> ELSE Head(ss) \o Flatten(Tail(ss))

Contains(s, sub) ==
    \E i \in 1..(Len(s) - Len(sub) + 1) : SubSeq(s, i, i + Len(sub) - 1) = sub

(* A link prefix directly followed by what, with the '/' a rewrite leaves
   before it, is a link prefix again. *)
Chained(s) ==
    \/ Contains(s, DisplayPath \o Tail(DisplayPath))
    \/ Contains(s, AttachmentsPath \o Tail(DisplayPath))
    \/ Contains(s, AttachmentsPath \o Tail(AttachmentsPath))

(* C12, as stated: for every body, the rewrite of a rewritten body is that
   body. *)
C12_RewriteIdempotent_Original ==
    text.passes >= 2 => text.body = text.prev

(* C12, amended: the rewrite of a rewritten body is that body, for every body
   in which no link prefix is directly followed by 'wiki/display/' and no
   '/wiki/download/attachments/' by 'wiki/download/attachments/'. *)
C12_RewriteIdempotent ==
    (text.passes >= 2 /\ ~Chained(Flatten(text.src))) => text.body = text.prev

C12_Witness ==
    /\ text.passes = 2
    /\ ~Chained(Flatten(text.src))
    /\ Contains(Flatten(text.src), DisplayPath)
    /\ Contains(Flatten(text.src), AttachmentsPath)
    /\ text.body = text.prev
    /\ text.body # Flatten(text.src)

(* C13: in the handlers, a call that failed with not found gets a response
   that differs from the response to every other kind of failure, and is not
   printed; a call that failed otherwise is printed. *)
C13_NotFoundDistinct ==
    (done.op \in HandlerCalls /\ done.out = "err") =>
        IF done.err = "notfound"
        THEN /\ ~Respond(done.op, done).logged
             /\ \A e \in {"transport", "zero", "parse", "path"} :
                    Respond(done.op, done) # error(e)
        ELSE Respond(done.op, done).logged

(* The entries a miss of the call writes when it is alone and the remote is
   at revision r. *)
SoloStore(op, args, r) ==
    LET pages == IF op = "GetPageById" THEN {q \in RemotePages : q.id = args[2]}
                 ELSE {q \in RemotePages :
                          q.space = args[1] /\ q.title = DecodeQuery(args[2])}
        value(q) == PageVal([ID |-> q.id, Title |-> q.title,
                             Body |-> RewriteBody(RemoteBody(r))])
    IN  CASE op \in {"GetSpaces", "GetSpace"} ->
               [k \in {SpacesAll} |->
                  SpacesVal([i \in DOMAIN RemoteSpaces |->
                     [ID |-> RemoteSpaces[i].id, Key |-> RemoteSpaces[i].key,
                      Description |-> RemoteBody(r),
                      HomepageID |-> HomepageID(RemoteSpaces[i].home)]])]
          [] op \in {"GetPageById", "GetPageByTitle"} ->
               [k \in UNION {{PageKey(args[1], q.id),
                              PageKey(args[1], NormalizeTitle(q.title))} : q \in pages} |->
                  value(CHOOSE q \in pages :
                           k \in {PageKey(args[1], q.id),
                                  PageKey(args[1], NormalizeTitle(q.title))})]
          [] op = "GetAttachment" ->
               [k \in {AttachmentKey(args[1], args[2], args[4])} |->
                  AttachmentVal([Data |-> AttachmentData(args[1], args[2], args[3], args[4]),
                                 ContentType |-> <<"t">>])]

(* The key a call sets last, with its return. *)
LastKey(r) ==
    IF r.op \in {"GetPageById", "GetPageByTitle"}
    THEN PageKey(r.args[1], NormalizeTitle(r.res.page.Title))
    ELSE r.key

(* C14: every caller that missed makes its own remote request and, when the
   request succeeded, sets its own result, also when another caller is in a
   miss on the same key; the entry then holds the value set last; and when
   the remote content has not changed (and no Reset was made), the entries
   are those a miss of the call alone writes. *)
C14_ConcurrentMisses ==
    /\ \A p \in Callers : pc[p] \in {"set1", "set2", "set"} => call[p].fetches = 1
    /\ (done.looked /\ ~done.hit) => done.fetches = 1
    /\ (done.looked /\ ~done.hit /\ done.got = "data") =>
           /\ LastKey(done) \in done.wrote
           /\ LastKey(done) \in DOMAIN cache
           /\ Returned(done.op, done.args, cache[LastKey(done)].val).res = done.res
           /\ (rev = 0 /\ ttl = DefaultTTL) =>
                  /\ done.wrote = DOMAIN SoloStore(done.op, done.args, 0)
                  /\ \A k \in done.wrote :
                         /\ k \in DOMAIN cache
                         /\ cache[k].val = SoloStore(done.op, done.args, 0)[k]

(* Two callers missed on the same key, each made its request, and the one
   that returned set the key over the value of the other. *)
C14_Witness ==
    /\ done.op = "GetPageById"
    /\ done.looked /\ ~done.hit /\ done.out = "ok"
    /\ done.fetches = 1
    /\ done.key \in done.over
    /\ rev = 0 /\ ttl = DefaultTTL
    /\ \A p \in Callers : pc[p] = "idle"
    /\ budget = MaxCalls - 2

(* The key the next step of caller p sets, if it is at a Set. *)
SetKey(p) ==
    CASE pc[p] = "set1" -> PageIdKey(call[p].args[1], call[p].res.page)
      [] pc[p] = "set2" -> PageTitleKey(call[p].args[1], call[p].res.page)
      [] pc[p] = "set" -> call[p].key
      [] OTHER -> <<>>

(* A step changes an item that stays in the store only by setting its key,
   and the item then expires one time-to-live after the step. *)
OnlySetRenews ==
    \A k \in DOMAIN cache \cap DOMAIN cache' :
        cache'[k] # cache[k] =>
            /\ cache'[k].exp = now + ttl
            /\ \E p \in Callers : pc[p] \in {"set1", "set2", "set"} /\ k = SetKey(p)

(* r is the same call as the successful call before it, which read or wrote
   the entry under the key of both. *)
Again(r) ==
    /\ Follows(r, r.op)
    /\ r.args = r.pred.args
    /\ r.pred.own >= 0

(* The call before r wrote its entry with its return. *)
WroteAtReturn(r) ==
    /\ ~r.pred.hit
    /\ r.pred.op \in {"GetSpaces", "GetSpace", "GetAttachment", "GetPageByTitle"}

(* C15, as stated: an entry is served only while less than the time-to-live
   has passed since it was written; a hit or the write of another key does
   not change its expiration; past its time-to-live it is not served, swept
   or not. *)
C15_FixedLazyExpiry_Original ==
    /\ [](\A r \in Calls :
             /\ (Again(r) /\ WroteAtReturn(r)) =>
                    (r.hit <=> r.t0 - r.pred.at < ttl)
             /\ Again(r) => (r.hit => r.t0 < r.pred.own))
    /\ [][OnlySetRenews]_vars

(* C15, amended: an entry is served while no more than the time-to-live has
   passed since it was written (at exactly the time-to-live it is still
   served) and not after, swept or not; a hit or the write of another key
   does not change its expiration. *)
C15_FixedLazyExpiry ==
    /\ [](\A r \in Calls :
             /\ (Again(r) /\ WroteAtReturn(r)) =>
                    (r.hit <=> r.t0 - r.pred.at <= ttl)
             /\ Again(r) => (r.hit <=> r.t0 <= r.pred.own))
    /\ [][OnlySetRenews]_vars

(* An entry was written, served when exactly its time-to-live had passed, and
   not served at the next lookup, before which nothing swept it. *)
C15_Witness ==
    /\ pc["c1"] = "fetch"
    /\ Again(call["c1"])
    /\ call["c1"].pred.hit
    /\ call["c1"].pred.at = call["c1"].pred.own
    /\ call["c1"].t0 > call["c1"].pred.own
    /\ call["c1"].key \in DOMAIN cache
    /\ \E k \in DOMAIN cache : k # call["c1"].key /\ cache[k].exp > cache[call["c1"].key].exp

(* C16: a call makes at most one remote request: one when its lookup missed,
   none when it hit; and a request that failed, or whose response is empty,
   is no JSON or holds no result, ends the call with an error value after
   that one request. *)
C16_NoRetry ==
    \A r \in Calls :
        /\ r.fetches <= 1
        /\ Returned_(r) => r.fetches = (IF r.hit THEN 0 ELSE 1)
        /\ r.got \in {"errs", "empty", "notjson", "nopath", "noresults"} =>
               /\ r.out = "err"
               /\ r.fetches = 1

C16_Witness ==
    /\ done.op = "GetSpace"
    /\ done.looked /\ ~done.hit
    /\ done.got = "errs"
    /\ done.out = "err"
    /\ done.err = "transport"
    /\ done.fetches = 1
    /\ done.pred.op = "GetSpace"
    /\ done.pred.hit

(* C17: a hit of GetPageById(K, id) returns a page whose identifier is id and
   which is a page of space K, and a hit of GetPageByTitle(K, T) returns a
   page of space K whose title, normalized, is T, normalized. *)
C17_NoSharedEntry ==
    (done.looked /\ done.hit) =>
        /\ done.op = "GetPageById" =>
               /\ done.res.page.ID = done.args[2]
               /\ \E q \in RemotePages :
                      q.id = done.res.page.ID /\ q.space = done.args[1]
        /\ done.op = "GetPageByTitle" =>
               /\ NormalizeTitle(done.res.page.Title) = NormalizeTitle(done.args[2])
               /\ \E q \in RemotePages :
                      q.id = done.res.page.ID /\ q.space = done.args[1]

(* C18: a call whose request was made before a Reset leaves no entry in the
   store that the Reset made. *)
C18_NoWriteAcrossReset ==
    done.crossed => \A k \in done.wrote : ~Live(cache, k, now)

(* The space keys of the page entries the store can hold. *)
PageSpaces == PageSpaceArgs \cup {q[2][1] : q \in KeyPageArgs}

(* The by-id entries the store serves: <<space key, key of the entry>>. *)
ServedById ==
    { <<K, k>> \in PageSpaces \X DOMAIN cache :
         /\ Live(cache, k, now)
         /\ cache[k].val.kind = "page"
         /\ k = PageKey(K, cache[k].val.page.ID) }

(* The key that goes with the by-id entry k of space K. *)
TitleKeyOf(K, k) == PageKey(K, NormalizeTitle(cache[k].val.page.Title))

(* C19, as stated: between the calls of a single caller, with the remote
   content unchanged, the by-id entry of a page and its by-title entry are
   served together or not at all, hold the same page and expire together. *)
C19_EntriesPaired_Original ==
    (pc["c1"] = "idle" /\ rev = 0) =>
        /\ \A e \in ServedById :
               /\ Live(cache, TitleKeyOf(e[1], e[2]), now)
               /\ cache[TitleKeyOf(e[1], e[2])] = cache[e[2]]
        /\ \A K \in PageSpaces : \A k \in DOMAIN cache :
               ( /\ Live(cache, k, now)
                 /\ cache[k].val.kind = "page"
                 /\ k = PageKey(K, NormalizeTitle(cache[k].val.page.Title)) )
               => Live(cache, PageKey(K, cache[k].val.page.ID), now)

(* C19, amended: between the calls of a single caller, whenever the by-id
   entry of a page is served, the entry under its by-title key is served too
   and expires no earlier; it holds the same page, unless a later write of
   another page, one of whose two keys is that same key, has replaced it. *)
C19_EntriesPaired ==
    pc["c1"] = "idle" =>
        \A e \in ServedById :
            LET t == TitleKeyOf(e[1], e[2])
            IN  /\ Live(cache, t, now)
                /\ cache[t].exp >= cache[e[2]].exp
                /\ \/ cache[t].val = cache[e[2]].val
                   \/ /\ cache[t].val.kind = "page"
                      /\ cache[t].val.page.ID # cache[e[2]].val.page.ID
                      /\ t \in {PageKey(e[1], cache[t].val.page.ID),
                                PageKey(e[1], NormalizeTitle(cache[t].val.page.Title))}

(* Both entries of a page are served, the by-title one to expire later. *)
C19_Witness ==
    /\ pc["c1"] = "idle"
    /\ \E e \in ServedById :
          /\ TitleKeyOf(e[1], e[2]) # e[2]
          /\ Live(cache, TitleKeyOf(e[1], e[2]), now)
          /\ cache[TitleKeyOf(e[1], e[2])].val = cache[e[2]].val
          /\ cache[TitleKeyOf(e[1], e[2])].exp > cache[e[2]].exp

(* The keys the claim lets a call set: r is the record of the call, its res
   the page fetched when it is a page call. *)
OwnKeys(r) ==
    CASE r.op \in {"GetSpaces", "GetSpace"} -> {SpacesAll}
      [] r.op = "GetAttachment" -> {AttachmentKey(r.args[1], r.args[2], r.args[4])}
      [] r.op \in {"GetPageById", "GetPageByTitle"} ->
            {PageKey(r.args[1], r.res.page.ID),
             PageKey(r.args[1], NormalizeTitle(r.res.page.Title))}
      [] OTHER -> {}

(* A step of an accessor changes the store at most in one key of the call,
   and in none while the call looks up or requests. *)
AccessorFrame ==
    \A p \in Callers :
        (pc[p] \in {"lookup", "fetch", "set1", "set2", "set"} /\ pc'[p] # pc[p]) =>
            /\ DOMAIN cache \subseteq DOMAIN cache'
            /\ \A k \in DOMAIN cache' :
                   \/ k \in DOMAIN cache /\ cache'[k] = cache[k]
                   \/ /\ pc[p] \in {"set1", "set2", "set"}
                      /\ k \in OwnKeys(call[p])
            /\ pc[p] \in {"lookup", "fetch"} => cache' = cache

(* C20: a call that hit has set no key, a call that missed has set keys of
   its own only ('spaces-all'; the attachment key of its id, file and date;
   pages-K-<page id> and pages-K-<normalized page title>), and no step of an
   accessor changes or removes another entry. *)
C20_OwnKeysOnly ==
    /\ [](/\ done.hit => done.wrote = {}
          /\ done.wrote \subseteq OwnKeys(done))
    /\ [][AccessorFrame]_vars

(* A page call that missed has set its two keys and left another entry. *)
C20_Witness ==
    /\ done.op = "GetPageByTitle"
    /\ ~done.hit
    /\ done.wrote = OwnKeys(done)
    /\ Cardinality(done.wrote) = 2
    /\ done.key \notin done.wrote
    /\ \E k \in DOMAIN cache : k \notin done.wrote /\ cache[k].exp < done.first

=============================================================================
